---- MODULE Spec2Model ----
(***************************************************************************)
(* FlashStats (src/flash_stats.h): the telemetry object of a flash-cache   *)
(* simulator.  The driver calls the event callbacks one at a time; each    *)
(* callback updates the counter registry, the per-key flag map `cached`,   *)
(* the per-key copy-forward counts `copyfwds` and the histogram            *)
(* `copyfwd_hist`.  A failed assert() aborts the process: the model keeps  *)
(* the state reached at the failing assert and sets `aborted`, after which *)
(* no callback runs.                                                       *)
(***************************************************************************)
EXTENDS Integers, Naturals, Sequences, FiniteSets, TLC

\* ---------------------------------------------------------------- bounds
NumKeys == 2
MaxSteps == 3

\* The driver's objects: key k names an object of ObjSize(k) bytes, and the
\* driver passes that size with every callback about the key.
Keys == 1..NumKeys
ObjSize(key) == key
Sizes == {ObjSize(k) : k \in Keys}

\* ------------------------------------------------------ program constants
\* copyfwd_hist(256, 0)
HistBuckets == 256
\* if (copyfwds[key] < 0xff)
CopyfwdMax == 255

\* enum Bits
Bits == {"INSERTED", "READ", "SKIPPED_INSERT", "SKIPPED_CF", "CF"}

\* counters = { {"total_reads", {}}, ... } in the constructor
DeclaredCounters ==
    {"total_reads", "total_misses", "total_hits", "compulsory_misses",
     "capacity_misses", "wa_skip_misses", "one_hit_misses", "copyfwd_hits",
     "copy_forwards", "inserts", "reinserts", "skipped_copyfwds",
     "skipped_inserts", "total_placements"}

\* ------------------------------------------------------------ Counter
\* Counter{}: byte_counter = 0, object_counter = 0
Counter == [byte_counter |-> 0, object_counter |-> 0]

\* void Counter::increment(osize_t size)
increment(c, size) ==
    [byte_counter |-> c.byte_counter + size,
     object_counter |-> c.object_counter + 1]

\* counters[name]: std::unordered_map::operator[] value-initialises a
\* missing entry
CounterAt(ctrs, name) ==
    IF name \in DOMAIN ctrs THEN ctrs[name] ELSE Counter

\* counters[name].increment(size)
CountersIncrement(ctrs, name, size) ==
    IF name \in DOMAIN ctrs
    THEN [ctrs EXCEPT ![name] = increment(@, size)]
    ELSE ctrs @@ (name :> increment(CounterAt(ctrs, name), size))

\* ------------------------------------------------- per-key maps
\* cached[key] read through operator[]: a missing entry is created as 0
FlagsAt(cch, key) == IF key \in DOMAIN cch THEN cch[key] ELSE {}

\* cached[key] = flags (entry created when missing)
CachedPut(cch, key, flags) ==
    IF key \in DOMAIN cch
    THEN [cch EXCEPT ![key] = flags]
    ELSE cch @@ (key :> flags)

\* copyfwds[key] read through operator[]: a missing entry is created as 0
CopyfwdsAt(cf, key) == IF key \in DOMAIN cf THEN cf[key] ELSE 0

\* copyfwds[key] = n
CopyfwdsPut(cf, key, n) ==
    IF key \in DOMAIN cf
    THEN [cf EXCEPT ![key] = n]
    ELSE cf @@ (key :> n)

\* copyfwds.erase(key)
CopyfwdsErase(cf, key) == [k \in (DOMAIN cf) \ {key} |-> cf[k]]

\* copyfwd_hist[idx]++  (vector index idx is sequence position idx + 1)
HistIncrement(h, idx) ==
    IF idx + 1 \in 1..Len(h) THEN [h EXCEPT ![idx + 1] = @ + 1] ELSE h

\* ------------------------------------------------- the FlashStats object
\* FlashStats(int m): the object right after construction
FlashStats ==
    [counters |-> [n \in DeclaredCounters |-> Counter],
     cached |-> << >>,
     copyfwds |-> << >>,
     copyfwd_hist |-> [i \in 1..HistBuckets |-> 0],
     containers_erased |-> 0,
     containers_written |-> 0,
     flash_bytes_written |-> 0,
     aborted |-> FALSE]

\* ------------------------------------------------- on_miss
\* bool compulsory_miss = it == cached.end()
IsCompulsoryMiss(cch, key) == key \notin DOMAIN cch

\* the skip test looking at SKIPPED_INSERT alone
IsWaSkipMiss_insertOnly(flags) == "SKIPPED_INSERT" \in flags

\* if (flags[SKIPPED_INSERT] || flags[SKIPPED_CF])
IsWaSkipMiss(flags) == "SKIPPED_INSERT" \in flags \/ "SKIPPED_CF" \in flags

\* on_miss with the capacity branch counting into the wrong counter
MissCategory_wrongCounter(cch, key) ==
    IF IsCompulsoryMiss(cch, key) THEN "compulsory_misses"
    ELSE IF IsWaSkipMiss(cch[key]) THEN "wa_skip_misses"
    ELSE "one_hit_misses"

\* the category counter on_miss increments
MissCategory(cch, key) ==
    IF IsCompulsoryMiss(cch, key) THEN "compulsory_misses"
    ELSE IF IsWaSkipMiss(cch[key]) THEN "wa_skip_misses"
    ELSE "capacity_misses"

\* on_miss without the assert of the SKIPPED_CF branch
MissAssertFails_capacityOnly(cch, key) ==
    /\ ~IsCompulsoryMiss(cch, key)
    /\ "INSERTED" \notin cch[key]
    /\ ~IsWaSkipMiss(cch[key])

\* the assert() that fails in on_miss, if any: assert(flags[INSERTED]) in
\* the SKIPPED_CF branch and in the capacity branch
MissAssertFails(cch, key) ==
    /\ ~IsCompulsoryMiss(cch, key)
    /\ "INSERTED" \notin cch[key]
    /\ \/ "SKIPPED_CF" \in cch[key]
       \/ ~IsWaSkipMiss(cch[key])

\* the wa_skip branch resetting SKIPPED_INSERT alone
MissResetFlags_insertOnly(flags) == flags \ {"SKIPPED_INSERT"}

\* cached[key].reset(SKIPPED_CF) when it is set, then
\* cached[key].reset(SKIPPED_INSERT)
MissResetFlags(flags) == flags \ {"SKIPPED_CF", "SKIPPED_INSERT"}

\* void on_miss(okey_t key, osize_t osize)
on_miss(st, key, osize) ==
    LET c1 == CountersIncrement(st.counters, "total_misses", osize)
        cat == MissCategory(st.cached, key)
        c2 == CountersIncrement(c1, cat, osize)
    IN  IF cat = "compulsory_misses"
        THEN [st EXCEPT !.counters = c2,
                        !.cached = CachedPut(st.cached, key, {})]
        ELSE IF cat = "wa_skip_misses"
        THEN IF MissAssertFails(st.cached, key)
             THEN [st EXCEPT !.counters = c2, !.aborted = TRUE]
             ELSE [st EXCEPT !.counters = c2,
                       !.cached = CachedPut(st.cached, key,
                           MissResetFlags(st.cached[key]))]
        ELSE IF MissAssertFails(st.cached, key)
             THEN [st EXCEPT !.counters = c1, !.aborted = TRUE]
             ELSE [st EXCEPT !.counters = c2]

\* ------------------------------------------------- on_insert_attempt
\* the reinsert test made after cached[key].set(INSERTED)
IsReinsert_afterSet(flags) == "INSERTED" \in (flags \cup {"INSERTED"})

\* if (cached[key][INSERTED])
IsReinsert(flags) == "INSERTED" \in flags

\* void on_insert_attempt(okey_t key, osize_t osize, bool was_inserted,
\*                        bool was_redundant)
on_insert_attempt(st, key, osize, was_inserted, was_redundant) ==
    IF was_inserted
    THEN LET c1 == CountersIncrement(st.counters, "inserts", osize)
             flags == FlagsAt(st.cached, key)
             c2 == IF IsReinsert(flags)
                   THEN CountersIncrement(c1, "reinserts", osize)
                   ELSE c1
         IN  [st EXCEPT !.counters = c2,
                        !.cached = CachedPut(st.cached, key,
                                             flags \cup {"INSERTED"})]
    ELSE IF ~was_redundant
    THEN [st EXCEPT
            !.cached = CachedPut(st.cached, key,
                          FlagsAt(st.cached, key) \cup {"SKIPPED_INSERT"}),
            !.counters = CountersIncrement(st.counters, "skipped_inserts",
                                           osize)]
    ELSE st

\* ------------------------------------------------- on_copyfwd_attempt
\* the count incremented without the 0xff guard, in a wider integer
CopyfwdBump_unguarded(n) == n + 1

\* the count incremented without the 0xff guard: the uint8_t wraps
CopyfwdBump_wraps(n) == (n + 1) % (CopyfwdMax + 1)

\* if (copyfwds[key] < 0xff) copyfwds[key]++
CopyfwdBump(n) == IF n < CopyfwdMax THEN n + 1 ELSE n

\* on_copyfwd_attempt testing was_copied_forward before skipped_copyfwd
on_copyfwd_attempt_copiedFirst(st, key, osize, was_copied_forward, skipped_copyfwd) ==
    IF was_copied_forward
    THEN [st EXCEPT
            !.cached = CachedPut(st.cached, key,
                          FlagsAt(st.cached, key) \cup {"CF"}),
            !.counters = CountersIncrement(st.counters, "copy_forwards",
                                           osize),
            !.copyfwds = CopyfwdsPut(st.copyfwds, key,
                             CopyfwdBump(CopyfwdsAt(st.copyfwds, key)))]
    ELSE IF skipped_copyfwd
    THEN [st EXCEPT
            !.cached = CachedPut(st.cached, key,
                          FlagsAt(st.cached, key) \cup {"SKIPPED_CF"}),
            !.counters = CountersIncrement(st.counters, "skipped_copyfwds",
                                           osize)]
    ELSE st

\* void on_copyfwd_attempt(okey_t key, osize_t osize,
\*                         bool was_copied_forward, bool skipped_copyfwd)
on_copyfwd_attempt(st, key, osize, was_copied_forward, skipped_copyfwd) ==
    IF skipped_copyfwd
    THEN [st EXCEPT
            !.cached = CachedPut(st.cached, key,
                          FlagsAt(st.cached, key) \cup {"SKIPPED_CF"}),
            !.counters = CountersIncrement(st.counters, "skipped_copyfwds",
                                           osize)]
    ELSE IF was_copied_forward
    THEN [st EXCEPT
            !.cached = CachedPut(st.cached, key,
                          FlagsAt(st.cached, key) \cup {"CF"}),
            !.counters = CountersIncrement(st.counters, "copy_forwards",
                                           osize),
            !.copyfwds = CopyfwdsPut(st.copyfwds, key,
                             CopyfwdBump(CopyfwdsAt(st.copyfwds, key)))]
    ELSE st

\* ------------------------------------------------- on_erase
\* assert(it != cached.end()); assert(it->second[INSERTED])
EraseAssertFails(cch, key) ==
    \/ key \notin DOMAIN cch
    \/ "INSERTED" \notin cch[key]

\* if (!it->second[READ])
IsOneHit(flags) == "READ" \notin flags

\* the mask applied without the complement: cached[key] &= mask
EraseMask_noComplement(flags) == flags \cap {"CF", "READ"}

\* uint8_t mask = (1 << CF | 1 << READ); cached[key] &= ~mask
EraseMask(flags) == flags \ {"CF", "READ"}

\* on_erase counting a one-hit erase twice
EraseCounters_twice(ctrs, flags, osize) ==
    IF IsOneHit(flags)
    THEN CountersIncrement(
             CountersIncrement(ctrs, "one_hit_misses", osize),
             "one_hit_misses", osize)
    ELSE ctrs

\* if (!it->second[READ]) counters["one_hit_misses"].increment(osize)
EraseCounters(ctrs, flags, osize) ==
    IF IsOneHit(flags)
    THEN CountersIncrement(ctrs, "one_hit_misses", osize)
    ELSE ctrs

\* void on_erase(okey_t key, osize_t osize)
on_erase(st, key, osize) ==
    IF EraseAssertFails(st.cached, key)
    THEN [st EXCEPT !.aborted = TRUE]
    ELSE LET flags == st.cached[key] IN
         [st EXCEPT
            !.counters = EraseCounters(st.counters, flags, osize),
            !.cached = CachedPut(st.cached, key, EraseMask(flags)),
            !.copyfwd_hist = HistIncrement(st.copyfwd_hist,
                                           CopyfwdsAt(st.copyfwds, key)),
            !.copyfwds = CopyfwdsErase(st.copyfwds, key)]

\* ------------------------------------------------- the other callbacks
\* void on_container_erase()
on_container_erase(st) ==
    [st EXCEPT !.containers_erased = st.containers_erased + 1]

\* void on_access(osize_t osize)
on_access(st, osize) ==
    [st EXCEPT !.counters = CountersIncrement(st.counters, "total_reads",
                                              osize)]

\* void on_hit(okey_t key, osize_t osize)
on_hit(st, key, osize) ==
    LET c1 == CountersIncrement(st.counters, "total_hits", osize)
        flags == FlagsAt(st.cached, key)
    IN  [st EXCEPT
            !.counters = IF "CF" \in flags
                         THEN CountersIncrement(c1, "copyfwd_hits", osize)
                         ELSE c1,
            !.cached = CachedPut(st.cached, key, flags \cup {"READ"})]

\* void on_evict(okey_t key, osize_t osize): empty body
on_evict(st, key, osize) == st

\* void on_write(osize_t osize)
on_write(st, osize) ==
    [st EXCEPT
        !.counters = CountersIncrement(st.counters, "objects_written", osize),
        !.flash_bytes_written = st.flash_bytes_written + osize]

\* the flush counting the container but not its unused capacity
on_container_flush_noPadding(st, unused_capacity) == [st EXCEPT !.containers_written = @ + 1]

\* void on_container_flush(size_t unused_capacity)
on_container_flush(st, unused_capacity) ==
    [st EXCEPT
        !.flash_bytes_written = st.flash_bytes_written + unused_capacity,
        !.containers_written = st.containers_written + 1]

\* void on_zone_insert(osize_t osize)
on_zone_insert(st, osize) ==
    [st EXCEPT !.counters = CountersIncrement(st.counters,
                                              "total_placements", osize)]

\* ------------------------------------------------- Counter at its widths
\* A fixed-width unsigned field is a sequence of 16-bit limbs, least
\* significant first: osize_t (uint32_t) has two, counter_t (uint64_t) four.
LimbBase == 65536
ObjectLimbs == 2
ByteLimbs == 4

\* the limbs of the value 0 at the given width
ZeroLimbs(width) == [i \in 1..width |-> 0]

\* a narrower unsigned value converted to the given width
Widen(x, width) == [i \in 1..width |-> IF i <= Len(x) THEN x[i] ELSE 0]

\* the carry into limb i of x + y
RECURSIVE CarryInto(_, _, _)
CarryInto(x, y, i) ==
    IF i = 1 THEN 0 ELSE (x[i - 1] + y[i - 1] + CarryInto(x, y, i - 1)) \div LimbBase

\* x + y in unsigned arithmetic of x's width: the carry out of the top limb
\* is dropped
AddWrap(x, y) ==
    [i \in 1..Len(x) |-> (x[i] + y[i] + CarryInto(x, y, i)) % LimbBase]

\* x < y for two values of one width
RECURSIVE LessFrom(_, _, _)
LessFrom(x, y, i) ==
    IF i = 0 THEN FALSE
    ELSE IF x[i] # y[i] THEN x[i] < y[i]
    ELSE LessFrom(x, y, i - 1)

Less(x, y) == LessFrom(x, y, Len(x))

\* counter_t byte_counter = 0; osize_t object_counter = 0;
CounterFixed ==
    [byte_counter |-> ZeroLimbs(ByteLimbs),
     object_counter |-> ZeroLimbs(ObjectLimbs)]

\* void Counter::increment(osize_t size) on the fields as declared
increment_fixed(c, size) ==
    [byte_counter |-> AddWrap(c.byte_counter, Widen(size, ByteLimbs)),
     object_counter |-> AddWrap(c.object_counter,
                                Widen(<<1>>, ObjectLimbs))]

\* ------------------------------------------------- periodic statistics
\* The periodic fields of FlashStats right after construction.
\* collect_periodic_stats() appends to segment_bytes_hit and
\* segment_objects_hit, which the class does not declare (it declares
\* segment_bytes_missed and segment_objects_missed, which nothing appends
\* to); the model keeps all four.
FlashStatsPeriodic ==
    [last_reads |-> Counter,
     last_hits |-> Counter,
     last_inserts |-> Counter,
     last_bytes_written |-> 0,
     segment_util |-> << >>,
     segment_bytes_missed |-> << >>,
     segment_bytes_read |-> << >>,
     segment_objects_missed |-> << >>,
     segment_objects_read |-> << >>,
     segment_fbw |-> << >>,
     segment_inserts |-> << >>,
     segment_bytes_hit |-> << >>,
     segment_objects_hit |-> << >>]

\* the cumulative value pushed instead of the delta
SegmentDelta_cumulative(now, before) == now

\* segment_fbw.push_back(flash_bytes_written - last_bytes_written)
SegmentDelta(now, before) == now - before

\* void FlashStats::collect_periodic_stats(size_t total_size): the periodic
\* fields after the call (counters and flash_bytes_written are only read)
collect_periodic_stats(st, pd, total_size) ==
    LET reads == CounterAt(st.counters, "total_reads")
        hits == CounterAt(st.counters, "total_hits")
        inserts == CounterAt(st.counters, "inserts")
    IN  [pd EXCEPT
           !.segment_bytes_read =
               Append(@, reads.byte_counter - pd.last_reads.byte_counter),
           !.segment_bytes_hit =
               Append(@, hits.byte_counter - pd.last_hits.byte_counter),
           !.segment_objects_read =
               Append(@, reads.object_counter - pd.last_reads.object_counter),
           !.segment_objects_hit =
               Append(@, hits.object_counter - pd.last_hits.object_counter),
           !.last_reads = reads,
           !.last_hits = hits,
           !.segment_inserts =
               Append(@, SegmentDelta(inserts.byte_counter,
                                      pd.last_inserts.byte_counter)),
           !.segment_fbw =
               Append(@, SegmentDelta(st.flash_bytes_written,
                                      pd.last_bytes_written)),
           !.last_inserts = inserts,
           !.last_bytes_written = st.flash_bytes_written,
           !.segment_util = Append(@, total_size)]

\* ------------------------------------------------- double arithmetic
\* A double that holds a ratio of two counters: a number num/den, or the
\* IEEE results of a division by zero.
Zero == [kind |-> "num", num |-> 0, den |-> 1]
NaN == [kind |-> "nan", num |-> 0, den |-> 0]
Inf == [kind |-> "inf", num |-> 1, den |-> 0]

\* (double)n / d for unsigned n and d
FDiv(n, d) ==
    IF d = 0 THEN (IF n = 0 THEN NaN ELSE Inf)
    ELSE IF n = 0 THEN Zero
    ELSE [kind |-> "num", num |-> n, den |-> d]

\* v.back(): undefined behaviour on an empty vector
Undefined == [kind |-> "undefined", num |-> 0, den |-> 0]
Back(v) == IF Len(v) = 0 THEN Undefined ELSE v[Len(v)]

\* void FlashStats::print_periodic_stats(): what it prints.  (It also
\* prints segment_bhr.back(), segment_ohr.back() and segment_wa.back(),
\* members the class does not declare.)
print_periodic_stats(st, pd) ==
    [op |-> "FlashStats::print_periodic_stats",
     overall_bhr |-> FDiv(CounterAt(st.counters, "total_hits").byte_counter,
                          CounterAt(st.counters, "total_reads").byte_counter),
     overall_ohr |-> FDiv(CounterAt(st.counters, "total_hits").object_counter,
                          CounterAt(st.counters, "total_reads").object_counter),
     overall_wa |-> FDiv(st.flash_bytes_written,
                         CounterAt(st.counters, "inserts").byte_counter),
     segment_util |-> Back(pd.segment_util),
     segment_fbw |-> Back(pd.segment_fbw),
     ub |-> Len(pd.segment_util) = 0 \/ Len(pd.segment_fbw) = 0]

\* ------------------------------------------------- JSON rendering
\* i < data.size() - 1 in size_t: for an empty vector the right-hand side
\* wraps to SIZE_MAX, above every index
LoopContinues(i, n) == IF n = 0 THEN TRUE ELSE i < n - 1

\* the indices data[i] the loop of print_segment_data reads: i = 0, 1, ...
\* for as long as the loop condition holds, up to and including the first
\* index outside the vector (index n)
LoopReads(n) ==
    LET iterations == Cardinality({i \in 0..n : LoopContinues(i, n)})
    IN  [j \in 1..iterations |-> j - 1]

\* std::string print_segment_data(std::vector<size_t> data, std::string
\* name): the element reads it makes and what it emits.  The loop reads
\* data[i] and emits a separator for each i; data.back() reads the last
\* element.  oob: an element outside the vector was read (undefined
\* behaviour), and the function is followed no further.
print_segment_data(data) ==
    LET n == Len(data)
        loop == LoopReads(n)
        oob == \E j \in 1..Len(loop) : loop[j] >= n
    IN  IF oob
        THEN [n |-> n, reads |-> loop, separators |-> Len(loop) - 1,
              elements |-> Len(loop) - 1, oob |-> TRUE]
        ELSE [n |-> n, reads |-> Append(loop, n - 1),
              separators |-> Len(loop), elements |-> Len(loop) + 1,
              oob |-> FALSE]

\* the renderings a dump makes, one series after the other, stopping at the
\* first one that reads outside its vector
RECURSIVE RenderAll(_)
RenderAll(series) ==
    IF series = << >> THEN << >>
    ELSE LET r == print_segment_data(Head(series))
         IN  IF r.oob THEN <<r>> ELSE <<r>> \o RenderAll(Tail(series))

\* std::string FlashStats::dump_counters_as_json(): the series it renders,
\* in order: copyfwd_hist (same loop, written inline), then the seven
\* declared segment series
dump_counters_as_json(st, pd) ==
    [op |-> "FlashStats::dump_counters_as_json",
     renders |-> RenderAll(<<st.copyfwd_hist,
                             pd.segment_util,
                             pd.segment_bytes_missed,
                             pd.segment_bytes_read,
                             pd.segment_objects_missed,
                             pd.segment_objects_read,
                             pd.segment_fbw,
                             pd.segment_inserts>>)]

\* ------------------------------------------------- CacheStats
\* counters = { {"total_reads", {}}, ... } in CacheStats(int m)
CacheDeclaredCounters ==
    {"total_reads", "total_misses", "total_hits", "inserts", "dram_hits",
     "dram_misses"}

\* CacheStats(int m): the object right after construction
CacheStats ==
    [counters |-> [n \in CacheDeclaredCounters |-> Counter],
     last_reads |-> Counter,
     last_hits |-> Counter,
     last_inserts |-> Counter,
     last_bytes_written |-> 0,
     segment_bhr |-> << >>,
     segment_ohr |-> << >>,
     segment_inserts |-> << >>]

\* CacheStats::on_miss, on_insert, on_access, on_hit, on_dram_hit and
\* on_dram_miss: counters[name].increment(osize)
CacheStats_increment(cs, name, osize) ==
    [cs EXCEPT !.counters = CountersIncrement(cs.counters, name, osize)]

\* void CacheStats::collect_periodic_stats()
CacheStats_collect_periodic_stats(cs) ==
    LET reads == CounterAt(cs.counters, "total_reads")
        hits == CounterAt(cs.counters, "total_hits")
        inserts == CounterAt(cs.counters, "inserts")
        dbytes == reads.byte_counter - cs.last_reads.byte_counter
        \* if (bytes_read - last_reads.byte_counter) bhr = (double)(...)/(...)
        bhr == IF dbytes # 0
               THEN FDiv(hits.byte_counter - cs.last_hits.byte_counter, dbytes)
               ELSE Zero
        \* the division in the second if is an expression statement: its
        \* value is dropped and ohr keeps its initial 0
        ohr == Zero
    IN  [cs EXCEPT
           !.segment_bhr = Append(@, bhr),
           !.segment_ohr = Append(@, ohr),
           !.last_reads = reads,
           !.last_hits = hits,
           \* segment_inserts.push_back(inserts): the cumulative byte count
           !.segment_inserts = Append(@, inserts.byte_counter),
           !.last_inserts = inserts]

\* void CacheStats::print_periodic_stats(): what it prints
CacheStats_print_periodic_stats(cs) ==
    [op |-> "CacheStats::print_periodic_stats",
     segment_bhr |-> Back(cs.segment_bhr),
     overall_bhr |-> FDiv(CounterAt(cs.counters, "total_hits").byte_counter,
                          CounterAt(cs.counters, "total_reads").byte_counter),
     segment_ohr |-> Back(cs.segment_ohr),
     overall_ohr |-> FDiv(CounterAt(cs.counters, "total_hits").object_counter,
                          CounterAt(cs.counters, "total_reads").object_counter),
     ub |-> Len(cs.segment_bhr) = 0 \/ Len(cs.segment_ohr) = 0]

\* std::string CacheStats::dump_counters_as_json(): the two series it
\* renders with the loop of print_segment_data written inline
CacheStats_dump_counters_as_json(cs) ==
    [op |-> "CacheStats::dump_counters_as_json",
     renders |-> RenderAll(<<cs.segment_bhr, cs.segment_ohr>>)]

\* ------------------------------------------------- state
VARIABLES
    counters,             \* std::unordered_map<std::string, Counter>
    cached,               \* std::unordered_map<okey_t, std::bitset<8>>
    copyfwds,             \* std::unordered_map<okey_t, uint8_t>
    copyfwd_hist,         \* std::vector<uint32_t>, 256 buckets
    containers_erased,
    containers_written,
    flash_bytes_written,
    aborted,              \* an assert() has failed: the process is gone
    steps,                \* callbacks made so far (bounded by MaxSteps)
    last,                 \* the most recent callback and its arguments
    erases,               \* on_erase calls that returned
    missed,               \* keys on_miss has been called for
    hitSinceInsert,       \* key -> on_hit seen since its last successful insert
    cfSinceErase,         \* key -> copy-forwards done since its last on_erase
    declinedSinceMiss,    \* keys with a declined, non-redundant insert
                          \* attempt since their last on_miss
    quietSinceMiss,       \* keys with no insert or copy-forward attempt
                          \* since their last on_miss
    tally,                \* sums of the on_write sizes and of the flushed
                          \* unused capacities, number of flushes
    periodic,             \* last_* and segment_* fields of the FlashStats
    cache,                \* the CacheStats object
    ctr,                  \* a Counter with its fields at their widths
    out,                  \* what the last report or dump produced
    collected             \* collect_periodic_stats calls made so far and
                          \* the totals read by the most recent one

objvars == <<counters, cached, copyfwds, copyfwd_hist, containers_erased,
             containers_written, flash_bytes_written, aborted>>
histvars == <<steps, last, erases, missed, hitSinceInsert, cfSinceErase,
              declinedSinceMiss, quietSinceMiss, tally, collected>>
statsvars == <<periodic, cache, ctr, out>>
vars == <<objvars, histvars, statsvars>>

\* the FlashStats object in the current state
Obj ==
    [counters |-> counters,
     cached |-> cached,
     copyfwds |-> copyfwds,
     copyfwd_hist |-> copyfwd_hist,
     containers_erased |-> containers_erased,
     containers_written |-> containers_written,
     flash_bytes_written |-> flash_bytes_written,
     aborted |-> aborted]

\* the FlashStats object in the next state
Store(st) ==
    /\ counters' = st.counters
    /\ cached' = st.cached
    /\ copyfwds' = st.copyfwds
    /\ copyfwd_hist' = st.copyfwd_hist
    /\ containers_erased' = st.containers_erased
    /\ containers_written' = st.containers_written
    /\ flash_bytes_written' = st.flash_bytes_written
    /\ aborted' = st.aborted

Event(op, key, size, a, b) ==
    [op |-> op, key |-> key, size |-> size, a |-> a, b |-> b]

\* a callback may run: the process is alive and the step bound is not reached
CanCall == ~aborted /\ steps < MaxSteps

\* an event callback of FlashStats: it touches none of the periodic fields
Record(ev) ==
    /\ steps' = steps + 1
    /\ last' = ev
    /\ UNCHANGED <<periodic, cache, ctr, out, collected>>

\* ------------------------------------------------- initial states
\* A run starts from the freshly constructed object, or from the object of
\* a run that has already missed key 1, inserted it and copied it forward
\* WarmCopyfwds times, so that the saturating per-key
\* count is within reach of the step bound.
WarmCopyfwds == CopyfwdMax - 1

RECURSIVE CopyForwardRun(_, _)
CopyForwardRun(st, n) ==
    IF n = 0 \/ st.aborted THEN st
    ELSE IF n = 1 THEN on_copyfwd_attempt(st, 1, ObjSize(1), TRUE, FALSE)
    ELSE CopyForwardRun(CopyForwardRun(st, n \div 2), n - (n \div 2))

WarmObj ==
    CopyForwardRun(
        on_insert_attempt(on_miss(FlashStats, 1, ObjSize(1)),
                          1, ObjSize(1), TRUE, FALSE),
        WarmCopyfwds)

Init ==
    \E warm \in BOOLEAN :
        LET st == IF warm THEN WarmObj ELSE FlashStats IN
        /\ counters = st.counters
        /\ cached = st.cached
        /\ copyfwds = st.copyfwds
        /\ copyfwd_hist = st.copyfwd_hist
        /\ containers_erased = st.containers_erased
        /\ containers_written = st.containers_written
        /\ flash_bytes_written = st.flash_bytes_written
        /\ aborted = st.aborted
        /\ steps = 0
        /\ last = IF warm
                  THEN Event("on_copyfwd_attempt", 1, ObjSize(1), TRUE, FALSE)
                  ELSE Event("construct", 0, 0, FALSE, FALSE)
        /\ erases = 0
        /\ missed = IF warm THEN {1} ELSE {}
        /\ hitSinceInsert = [k \in Keys |-> FALSE]
        /\ cfSinceErase =
             [k \in Keys |-> IF warm /\ k = 1 THEN WarmCopyfwds ELSE 0]
        /\ declinedSinceMiss = {}
        /\ quietSinceMiss = {}
        /\ tally = [writes |-> 0, unused |-> 0, flushes |-> 0]
        /\ periodic = FlashStatsPeriodic
        /\ cache = CacheStats
        /\ ctr = CounterFixed
        /\ out = [op |-> "none"]
        /\ collected = [flash |-> 0, cache |-> 0, flash_bytes_written |-> 0,
                        inserts |-> 0, tally |-> tally]

\* ------------------------------------------------- callbacks
Call_on_miss(key, osize) ==
    /\ CanCall
    /\ Store(on_miss(Obj, key, osize))
    /\ Record(Event("on_miss", key, osize, FALSE, FALSE))
    /\ missed' = missed \cup {key}
    /\ declinedSinceMiss' = declinedSinceMiss \ {key}
    /\ quietSinceMiss' = quietSinceMiss \cup {key}
    /\ UNCHANGED <<erases, hitSinceInsert, cfSinceErase, tally>>

Call_on_insert_attempt(key, osize, was_inserted, was_redundant) ==
    /\ CanCall
    /\ Store(on_insert_attempt(Obj, key, osize, was_inserted, was_redundant))
    /\ Record(Event("on_insert_attempt", key, osize, was_inserted,
                    was_redundant))
    /\ hitSinceInsert' = IF was_inserted
                         THEN [hitSinceInsert EXCEPT ![key] = FALSE]
                         ELSE hitSinceInsert
    /\ declinedSinceMiss' = IF ~was_inserted /\ ~was_redundant
                            THEN declinedSinceMiss \cup {key}
                            ELSE declinedSinceMiss
    /\ quietSinceMiss' = quietSinceMiss \ {key}
    /\ UNCHANGED <<erases, missed, cfSinceErase, tally>>

Call_on_copyfwd_attempt(key, osize, was_copied_forward, skipped_copyfwd) ==
    /\ CanCall
    /\ Store(on_copyfwd_attempt(Obj, key, osize, was_copied_forward,
                                skipped_copyfwd))
    /\ Record(Event("on_copyfwd_attempt", key, osize, was_copied_forward,
                    skipped_copyfwd))
    /\ cfSinceErase' = IF was_copied_forward /\ ~skipped_copyfwd
                       THEN [cfSinceErase EXCEPT ![key] = @ + 1]
                       ELSE cfSinceErase
    /\ quietSinceMiss' = quietSinceMiss \ {key}
    /\ UNCHANGED <<erases, missed, hitSinceInsert, declinedSinceMiss, tally>>

Call_on_erase(key, osize) ==
    /\ CanCall
    /\ LET st == on_erase(Obj, key, osize) IN
       /\ Store(st)
       /\ erases' = IF st.aborted THEN erases ELSE erases + 1
       /\ cfSinceErase' = IF st.aborted THEN cfSinceErase
                          ELSE [cfSinceErase EXCEPT ![key] = 0]
    /\ Record(Event("on_erase", key, osize, FALSE, FALSE))
    /\ UNCHANGED <<missed, hitSinceInsert, declinedSinceMiss, quietSinceMiss,
                   tally>>

Call_on_hit(key, osize) ==
    /\ CanCall
    /\ Store(on_hit(Obj, key, osize))
    /\ Record(Event("on_hit", key, osize, FALSE, FALSE))
    /\ hitSinceInsert' = [hitSinceInsert EXCEPT ![key] = TRUE]
    /\ UNCHANGED <<erases, missed, cfSinceErase, declinedSinceMiss,
                   quietSinceMiss, tally>>

Call_on_evict(key, osize) ==
    /\ CanCall
    /\ Store(on_evict(Obj, key, osize))
    /\ Record(Event("on_evict", key, osize, FALSE, FALSE))
    /\ UNCHANGED <<erases, missed, hitSinceInsert, cfSinceErase,
                   declinedSinceMiss, quietSinceMiss, tally>>

Call_on_access(osize) ==
    /\ CanCall
    /\ Store(on_access(Obj, osize))
    /\ Record(Event("on_access", 0, osize, FALSE, FALSE))
    /\ UNCHANGED <<erases, missed, hitSinceInsert, cfSinceErase,
                   declinedSinceMiss, quietSinceMiss, tally>>

Call_on_write(osize) ==
    /\ CanCall
    /\ Store(on_write(Obj, osize))
    /\ Record(Event("on_write", 0, osize, FALSE, FALSE))
    /\ tally' = [tally EXCEPT !.writes = @ + osize]
    /\ UNCHANGED <<erases, missed, hitSinceInsert, cfSinceErase,
                   declinedSinceMiss, quietSinceMiss>>

Call_on_container_flush(unused_capacity) ==
    /\ CanCall
    /\ Store(on_container_flush(Obj, unused_capacity))
    /\ Record(Event("on_container_flush", 0, unused_capacity, FALSE, FALSE))
    /\ tally' = [tally EXCEPT !.unused = @ + unused_capacity,
                              !.flushes = @ + 1]
    /\ UNCHANGED <<erases, missed, hitSinceInsert, cfSinceErase,
                   declinedSinceMiss, quietSinceMiss>>

Call_on_container_erase ==
    /\ CanCall
    /\ Store(on_container_erase(Obj))
    /\ Record(Event("on_container_erase", 0, 0, FALSE, FALSE))
    /\ UNCHANGED <<erases, missed, hitSinceInsert, cfSinceErase,
                   declinedSinceMiss, quietSinceMiss, tally>>

Call_on_zone_insert(osize) ==
    /\ CanCall
    /\ Store(on_zone_insert(Obj, osize))
    /\ Record(Event("on_zone_insert", 0, osize, FALSE, FALSE))
    /\ UNCHANGED <<erases, missed, hitSinceInsert, cfSinceErase,
                   declinedSinceMiss, quietSinceMiss, tally>>

Next ==
    \/ \E key \in Keys : Call_on_miss(key, ObjSize(key))
    \/ \E key \in Keys, was_inserted, was_redundant \in BOOLEAN :
          Call_on_insert_attempt(key, ObjSize(key), was_inserted,
                                 was_redundant)
    \/ \E key \in Keys, was_copied_forward, skipped_copyfwd \in BOOLEAN :
          Call_on_copyfwd_attempt(key, ObjSize(key), was_copied_forward,
                                  skipped_copyfwd)
    \/ \E key \in Keys : Call_on_erase(key, ObjSize(key))
    \/ \E key \in Keys : Call_on_hit(key, ObjSize(key))
    \/ \E key \in Keys : Call_on_evict(key, ObjSize(key))
    \/ \E osize \in Sizes : Call_on_access(osize)
    \/ \E osize \in Sizes : Call_on_write(osize)
    \/ \E unused_capacity \in Sizes : Call_on_container_flush(unused_capacity)
    \/ Call_on_container_erase
    \/ \E osize \in Sizes : Call_on_zone_insert(osize)

Spec == Init /\ [][Next]_vars

\* ------------------------------------------------- periodic calls
flashvars == <<counters, cached, copyfwds, copyfwd_hist, containers_erased,
               containers_written, flash_bytes_written>>
flashhist == <<erases, missed, hitSinceInsert, cfSinceErase,
               declinedSinceMiss, quietSinceMiss, tally>>

\* a report has been produced.  One that has run into undefined behaviour
\* (back() of an empty vector, a read outside a vector) either kills the
\* process or goes on with whatever it read.
Reported(rep, ub) ==
    /\ out' = rep
    /\ aborted' \in (IF ub THEN BOOLEAN ELSE {aborted})

\* some rendering of the dump has read outside its vector
DumpReadOutside(rep) == \E i \in 1..Len(rep.renders) : rep.renders[i].oob

Call_collect_periodic_stats(total_size) ==
    /\ CanCall
    /\ periodic' = collect_periodic_stats(Obj, periodic, total_size)
    /\ collected' = [collected EXCEPT
                        !.flash = @ + 1,
                        !.flash_bytes_written = flash_bytes_written,
                        !.inserts = CounterAt(counters, "inserts").byte_counter,
                        !.tally = tally]
    /\ steps' = steps + 1
    /\ last' = Event("collect_periodic_stats", 0, total_size, FALSE, FALSE)
    /\ UNCHANGED <<objvars, flashhist, cache, ctr, out>>

Call_print_periodic_stats ==
    /\ CanCall
    /\ LET rep == print_periodic_stats(Obj, periodic) IN Reported(rep, rep.ub)
    /\ steps' = steps + 1
    /\ last' = Event("print_periodic_stats", 0, 0, FALSE, FALSE)
    /\ UNCHANGED <<flashvars, flashhist, periodic, cache, ctr, collected>>

Call_dump_counters_as_json ==
    /\ CanCall
    /\ LET rep == dump_counters_as_json(Obj, periodic)
       IN  Reported(rep, DumpReadOutside(rep))
    /\ steps' = steps + 1
    /\ last' = Event("dump_counters_as_json", 0, 0, FALSE, FALSE)
    /\ UNCHANGED <<flashvars, flashhist, periodic, cache, ctr, collected>>

\* a FlashStats driven by its event callbacks and by the periodic calls
NextPeriodic ==
    \/ Next
    \/ \E total_size \in Sizes : Call_collect_periodic_stats(total_size)
    \/ Call_print_periodic_stats
    \/ Call_dump_counters_as_json

SpecPeriodic == Init /\ [][NextPeriodic]_vars

\* ------------------------------------------------- CacheStats calls
\* an event callback of CacheStats: counters[name].increment(osize)
CacheStatsEvent(op, name, osize) ==
    /\ CanCall
    /\ cache' = CacheStats_increment(cache, name, osize)
    /\ steps' = steps + 1
    /\ last' = Event(op, 0, osize, FALSE, FALSE)
    /\ UNCHANGED <<objvars, flashhist, periodic, ctr, out, collected>>

Call_CacheStats_on_miss(osize) ==
    CacheStatsEvent("CacheStats::on_miss", "total_misses", osize)

Call_CacheStats_on_insert(osize) ==
    CacheStatsEvent("CacheStats::on_insert", "inserts", osize)

Call_CacheStats_on_access(osize) ==
    CacheStatsEvent("CacheStats::on_access", "total_reads", osize)

Call_CacheStats_on_hit(osize) ==
    CacheStatsEvent("CacheStats::on_hit", "total_hits", osize)

Call_CacheStats_on_dram_hit(osize) ==
    CacheStatsEvent("CacheStats::on_dram_hit", "dram_hits", osize)

Call_CacheStats_on_dram_miss(osize) ==
    CacheStatsEvent("CacheStats::on_dram_miss", "dram_misses", osize)

Call_CacheStats_collect_periodic_stats ==
    /\ CanCall
    /\ cache' = CacheStats_collect_periodic_stats(cache)
    /\ collected' = [collected EXCEPT !.cache = @ + 1]
    /\ steps' = steps + 1
    /\ last' = Event("CacheStats::collect_periodic_stats", 0, 0, FALSE, FALSE)
    /\ UNCHANGED <<objvars, flashhist, periodic, ctr, out>>

Call_CacheStats_print_periodic_stats ==
    /\ CanCall
    /\ LET rep == CacheStats_print_periodic_stats(cache)
       IN  Reported(rep, rep.ub)
    /\ steps' = steps + 1
    /\ last' = Event("CacheStats::print_periodic_stats", 0, 0, FALSE, FALSE)
    /\ UNCHANGED <<flashvars, flashhist, periodic, cache, ctr, collected>>

Call_CacheStats_dump_counters_as_json ==
    /\ CanCall
    /\ LET rep == CacheStats_dump_counters_as_json(cache)
       IN  Reported(rep, DumpReadOutside(rep))
    /\ steps' = steps + 1
    /\ last' = Event("CacheStats::dump_counters_as_json", 0, 0, FALSE, FALSE)
    /\ UNCHANGED <<flashvars, flashhist, periodic, cache, ctr, collected>>

NextCache ==
    \/ \E osize \in Sizes : Call_CacheStats_on_miss(osize)
    \/ \E osize \in Sizes : Call_CacheStats_on_insert(osize)
    \/ \E osize \in Sizes : Call_CacheStats_on_access(osize)
    \/ \E osize \in Sizes : Call_CacheStats_on_hit(osize)
    \/ \E osize \in Sizes : Call_CacheStats_on_dram_hit(osize)
    \/ \E osize \in Sizes : Call_CacheStats_on_dram_miss(osize)
    \/ Call_CacheStats_collect_periodic_stats
    \/ Call_CacheStats_print_periodic_stats
    \/ Call_CacheStats_dump_counters_as_json

SpecCache == Init /\ [][NextCache]_vars

\* ------------------------------------------------- Counter calls
\* the limbs the counters and sizes of a run are drawn from
LimbValues == {0, 1, LimbBase - 1}

\* osize_t arguments of increment
SizeValues == {<<lo, hi>> : lo \in LimbValues, hi \in LimbValues}

\* Counters a run can hold before either field has wrapped: n increments
\* of 32-bit sizes give any byte total below 2^32 once n >= 1
CounterStarts ==
    {c \in [byte_counter : {<<b1, b2, 0, 0>> : b1 \in LimbValues,
                                               b2 \in LimbValues},
            object_counter : SizeValues] :
        c.object_counter = ZeroLimbs(ObjectLimbs)
            => c.byte_counter = ZeroLimbs(ByteLimbs)}

InitCounter ==
    /\ counters = FlashStats.counters
    /\ cached = FlashStats.cached
    /\ copyfwds = FlashStats.copyfwds
    /\ copyfwd_hist = FlashStats.copyfwd_hist
    /\ containers_erased = FlashStats.containers_erased
    /\ containers_written = FlashStats.containers_written
    /\ flash_bytes_written = FlashStats.flash_bytes_written
    /\ aborted = FlashStats.aborted
    /\ steps = 0
    /\ last = Event("construct", 0, 0, FALSE, FALSE)
    /\ erases = 0
    /\ missed = {}
    /\ hitSinceInsert = [k \in Keys |-> FALSE]
    /\ cfSinceErase = [k \in Keys |-> 0]
    /\ declinedSinceMiss = {}
    /\ quietSinceMiss = {}
    /\ tally = [writes |-> 0, unused |-> 0, flushes |-> 0]
    /\ periodic = FlashStatsPeriodic
    /\ cache = CacheStats
    /\ ctr \in CounterStarts
    /\ out = [op |-> "none"]
    /\ collected = [flash |-> 0, cache |-> 0, flash_bytes_written |-> 0,
                    inserts |-> 0, tally |-> tally]

Call_increment(size) ==
    /\ CanCall
    /\ ctr' = increment_fixed(ctr, size)
    /\ steps' = steps + 1
    /\ last' = Event("Counter::increment", 0, size, FALSE, FALSE)
    /\ UNCHANGED <<objvars, flashhist, periodic, cache, out, collected>>

NextCounter == \E size \in SizeValues : Call_increment(size)

SpecCounter == InitCounter /\ [][NextCounter]_vars

\* ------------------------------------------------- reading the state
Objs(name) == CounterAt(counters, name).object_counter
Bytes(name) == CounterAt(counters, name).byte_counter

\* the named counter grew by one object of osize bytes in this step
Incremented(name, osize) ==
    /\ Objs(name)' = Objs(name) + 1
    /\ Bytes(name)' = Bytes(name) + osize

\* the named counter did not change in this step
Same(name) == CounterAt(counters, name)' = CounterAt(counters, name)

\* the step is a call of the callback op
Called(op) == last'.op = op /\ steps' = steps + 1

\* the step is a call of the callback op that returned
Returned(op) == Called(op) /\ ~aborted'

Min(a, b) == IF a <= b THEN a ELSE b

\* the sum of h over the positions in I
RECURSIVE SumOver(_, _)
SumOver(h, I) ==
    IF I = {} THEN 0
    ELSE LET i == CHOOSE j \in I : TRUE
         IN  h[i] + SumOver(h, I \ {i})

\* the sum of all buckets (the empty buckets add nothing)
HistSum ==
    SumOver(copyfwd_hist, {i \in DOMAIN copyfwd_hist : copyfwd_hist[i] # 0})

MissTimeCategories == {"compulsory_misses", "capacity_misses", "wa_skip_misses"}
MissCategories == MissTimeCategories \cup {"one_hit_misses"}

\* ------------------------------------------------- C1
\* C1: after any sequence of callbacks that returned, compulsory_misses +
\* capacity_misses + wa_skip_misses equals total_misses, in objects and in
\* bytes, and every on_miss that returns increments total_misses and
\* exactly one of the three category counters by the same size.
C1_MissCategoriesSumToTotal ==
    /\ [](~aborted =>
            /\ Objs("compulsory_misses") + Objs("capacity_misses")
                 + Objs("wa_skip_misses") = Objs("total_misses")
            /\ Bytes("compulsory_misses") + Bytes("capacity_misses")
                 + Bytes("wa_skip_misses") = Bytes("total_misses"))
    /\ [][Returned("on_miss") =>
            /\ Incremented("total_misses", last'.size)
            /\ \E c \in MissTimeCategories :
                  /\ Incremented(c, last'.size)
                  /\ \A d \in MissTimeCategories \ {c} : Same(d)]_vars

\* all three miss-time categories have been counted in a live run
C1_Witness ==
    /\ ~aborted
    /\ last.op = "on_miss"
    /\ Objs("compulsory_misses") >= 1
    /\ Objs("capacity_misses") >= 1
    /\ Objs("wa_skip_misses") >= 1

\* ------------------------------------------------- C2
\* C2 (as claimed): in every reachable state compulsory_misses +
\* capacity_misses + wa_skip_misses + one_hit_misses <= total_misses
\* (objects), and no callback increments more than one of the four.
AtMostOneCategoryChanges ==
    \A c, d \in MissCategories :
        (c # d /\ ~Same(c)) => Same(d)

C2_FourCategoriesWithinTotal ==
    /\ [](Objs("compulsory_misses") + Objs("capacity_misses")
            + Objs("wa_skip_misses") + Objs("one_hit_misses")
            <= Objs("total_misses"))
    /\ [][AtMostOneCategoryChanges]_vars

\* C2 (amended): one_hit_misses is counted by on_erase, not by on_miss, so
\* the four categories together are bounded by total_misses plus the number
\* of on_erase calls that returned; no callback increments more than one of
\* the four.
C2_FourCategoriesWithinTotalPlusErases ==
    /\ [](/\ Objs("compulsory_misses") + Objs("capacity_misses")
               + Objs("wa_skip_misses") + Objs("one_hit_misses")
               <= Objs("total_misses") + erases
          /\ Objs("one_hit_misses") <= erases)
    /\ [][AtMostOneCategoryChanges]_vars

\* a compulsory miss, an insert, and an erase before any read: the same
\* object is counted as a compulsory miss and as a one-hit miss
C2_Witness ==
    /\ ~aborted
    /\ last.op = "on_erase"
    /\ Objs("total_misses") = 1
    /\ Objs("compulsory_misses") = 1
    /\ Objs("one_hit_misses") = 1

\* ------------------------------------------------- C3
\* C3: on_miss classifies by the key's state before the call.  No entry:
\* only compulsory_misses grows and the key gets an entry with all flags
\* clear.  Entry with SKIPPED_INSERT or SKIPPED_CF: only wa_skip_misses
\* grows and, when the call returns, both skip flags are clear.  Entry with
\* neither skip flag and INSERTED: only capacity_misses grows and no flag
\* changes.  After a declined non-redundant insert attempt the next on_miss
\* of the key is a wa_skip miss.
SkipFlags == {"SKIPPED_INSERT", "SKIPPED_CF"}

C3_MissClassification ==
    [][Called("on_miss") =>
        LET k == last'.key
            s == last'.size
        IN  /\ k \notin DOMAIN cached =>
                 /\ Incremented("compulsory_misses", s)
                 /\ Same("wa_skip_misses") /\ Same("capacity_misses")
                 /\ k \in DOMAIN cached' /\ cached'[k] = {}
            /\ (k \in DOMAIN cached /\ cached[k] \cap SkipFlags # {}) =>
                 /\ Incremented("wa_skip_misses", s)
                 /\ Same("compulsory_misses") /\ Same("capacity_misses")
                 /\ ~aborted' => cached'[k] = cached[k] \ SkipFlags
            /\ (/\ k \in DOMAIN cached
                /\ cached[k] \cap SkipFlags = {}
                /\ "INSERTED" \in cached[k]) =>
                 /\ ~aborted'
                 /\ Incremented("capacity_misses", s)
                 /\ Same("compulsory_misses") /\ Same("wa_skip_misses")
                 /\ cached' = cached
            /\ k \in declinedSinceMiss =>
                 /\ Incremented("wa_skip_misses", s)
                 /\ Same("capacity_misses")]_vars

\* Scenario 2: an insert was declined and the one miss after it is a
\* wa_skip miss that cleared the skip flags
C3_Witness ==
    /\ ~aborted
    /\ last.op = "on_miss"
    /\ Objs("skipped_inserts") = 1
    /\ Objs("total_misses") = 1
    /\ Objs("wa_skip_misses") = 1
    /\ Objs("capacity_misses") = 0
    /\ cached[last.key] \cap SkipFlags = {}

\* ------------------------------------------------- C4
\* C4: on_erase(key) increments one_hit_misses if and only if no on_hit(key)
\* has occurred since the key's most recent successful insert.
C4_OneHitIffNoHitSinceInsert ==
    [][Returned("on_erase") =>
        IF hitSinceInsert[last'.key]
        THEN Same("one_hit_misses")
        ELSE Incremented("one_hit_misses", last'.size)]_vars

\* ------------------------------------------------- C5
\* C5: the copyfwd_hist buckets sum to the number of on_erase calls that
\* returned, copyfwd_hist keeps exactly 256 buckets, and every on_erase
\* increments one bucket whose index is in 0..255.
C5_HistogramCountsErases ==
    /\ [](/\ Len(copyfwd_hist) = HistBuckets
          /\ HistSum = erases)
    /\ [][Returned("on_erase") =>
            \E idx \in 0..(HistBuckets - 1) :
                copyfwd_hist' = [copyfwd_hist EXCEPT ![idx + 1] = @ + 1]]_vars

\* erases have filled the last bucket and the first one
C5_Witness ==
    /\ ~aborted
    /\ erases >= 2
    /\ copyfwd_hist[HistBuckets] >= 1
    /\ copyfwd_hist[1] >= 1

\* ------------------------------------------------- C6
\* C6: the per-key copy-forward count is min(n, 255), n the number of
\* copy-forwards of the key since its previous on_erase; on_erase
\* increments exactly bucket min(n, 255) and removes the key's copyfwds
\* entry, so an on_erase of the same key right after it increments bucket 0.
C6_CopyfwdCountSaturatesAndRetires ==
    /\ [](\A k \in Keys :
            CopyfwdsAt(copyfwds, k) = Min(cfSinceErase[k], CopyfwdMax))
    /\ [][Returned("on_erase") =>
            LET k == last'.key
                n == cfSinceErase[k]
            IN  /\ copyfwd_hist' =
                     [copyfwd_hist EXCEPT ![Min(n, CopyfwdMax) + 1] = @ + 1]
                /\ k \notin DOMAIN copyfwds'
                /\ (last.op = "on_erase" /\ last.key = k) =>
                     copyfwd_hist' = [copyfwd_hist EXCEPT ![1] = @ + 1]]_vars

\* one key was copied forward more than 255 times and then erased: the
\* erase went to bucket 255
C6_Witness ==
    /\ ~aborted
    /\ last.op = "on_erase"
    /\ erases = 1
    /\ \A k \in Keys \ {last.key} : k \notin DOMAIN cached
    /\ Objs("copy_forwards") > CopyfwdMax
    /\ copyfwd_hist[CopyfwdMax + 1] = 1
    /\ last.key \notin DOMAIN copyfwds

\* ------------------------------------------------- C7
\* C7 (as claimed): on_copyfwd_attempt is decided by was_copied_forward for
\* every value of skipped_copyfwd: false sets SKIPPED_CF and increments
\* skipped_copyfwds; true sets CF, increments copy_forwards and increments
\* the key's copy-forward count unless it is already 255.
C7_DecidedByWasCopiedForward ==
    [][Called("on_copyfwd_attempt") =>
        LET k == last'.key
            s == last'.size
            n == CopyfwdsAt(copyfwds, k)
        IN  IF last'.a
            THEN /\ "CF" \in FlagsAt(cached', k)
                 /\ Incremented("copy_forwards", s)
                 /\ CopyfwdsAt(copyfwds', k) =
                      IF n = CopyfwdMax THEN n ELSE n + 1
            ELSE /\ "SKIPPED_CF" \in FlagsAt(cached', k)
                 /\ Incremented("skipped_copyfwds", s)]_vars

\* C7 (amended): on_copyfwd_attempt is decided by skipped_copyfwd first.
\* skipped_copyfwd true, whatever was_copied_forward: it sets SKIPPED_CF and
\* increments skipped_copyfwds by one object and size bytes, and nothing
\* else.  skipped_copyfwd false and was_copied_forward true: it sets CF,
\* increments copy_forwards by one object and size bytes, and increments
\* the key's copy-forward count unless it is already 255.  Both false: it
\* changes nothing.
C7_DecidedBySkippedCopyfwd ==
    [][Called("on_copyfwd_attempt") =>
        LET k == last'.key
            s == last'.size
            n == CopyfwdsAt(copyfwds, k)
        IN  /\ ~aborted'
            /\ last'.b =>
                 /\ FlagsAt(cached', k) = FlagsAt(cached, k) \cup {"SKIPPED_CF"}
                 /\ Incremented("skipped_copyfwds", s)
                 /\ Same("copy_forwards")
                 /\ copyfwds' = copyfwds
            /\ (~last'.b /\ last'.a) =>
                 /\ FlagsAt(cached', k) = FlagsAt(cached, k) \cup {"CF"}
                 /\ Incremented("copy_forwards", s)
                 /\ Same("skipped_copyfwds")
                 /\ CopyfwdsAt(copyfwds', k) =
                      IF n = CopyfwdMax THEN n ELSE n + 1
            /\ (~last'.b /\ ~last'.a) =>
                 /\ counters' = counters
                 /\ cached' = cached
                 /\ copyfwds' = copyfwds]_vars

\* a call with was_copied_forward and skipped_copyfwd both true was counted
\* as a skipped copy-forward
C7_Witness ==
    /\ last.op = "on_copyfwd_attempt"
    /\ last.a /\ last.b
    /\ last.key \in DOMAIN cached
    /\ "SKIPPED_CF" \in cached[last.key]
    /\ "CF" \notin cached[last.key]
    /\ Objs("skipped_copyfwds") = 1
    /\ Objs("copy_forwards") = 0

\* ------------------------------------------------- C8
\* C8: on_insert_attempt with was_inserted increments inserts, increments
\* reinserts iff INSERTED was set before the call, and leaves INSERTED set;
\* declined and not redundant, it sets SKIPPED_INSERT and increments
\* skipped_inserts; declined and redundant, it changes no counter and no
\* flag.  Hence reinserts <= inserts, in objects and in bytes.
C8_InsertAttempt ==
    /\ [](/\ Objs("reinserts") <= Objs("inserts")
          /\ Bytes("reinserts") <= Bytes("inserts"))
    /\ [][Called("on_insert_attempt") =>
            LET k == last'.key
                s == last'.size
                before == FlagsAt(cached, k)
            IN  /\ ~aborted'
                /\ last'.a =>
                     /\ Incremented("inserts", s)
                     /\ IF "INSERTED" \in before
                        THEN Incremented("reinserts", s)
                        ELSE Same("reinserts")
                     /\ Same("skipped_inserts")
                     /\ "INSERTED" \in FlagsAt(cached', k)
                /\ (~last'.a /\ ~last'.b) =>
                     /\ "SKIPPED_INSERT" \in FlagsAt(cached', k)
                     /\ Incremented("skipped_inserts", s)
                     /\ Same("inserts") /\ Same("reinserts")
                /\ (~last'.a /\ last'.b) =>
                     /\ counters' = counters
                     /\ cached' = cached]_vars

\* a successful insert of a key that was inserted before, after a first
\* insert that was not a reinsert
C8_Witness ==
    /\ last.op = "on_insert_attempt"
    /\ last.a
    /\ Objs("reinserts") >= 1
    /\ Objs("reinserts") < Objs("inserts")

\* ------------------------------------------------- C9
\* C9: an on_erase of a key without an entry or without INSERTED, an
\* on_miss of a key with SKIPPED_CF set and INSERTED clear, and an on_miss
\* of a known key with neither skip flag and INSERTED clear each abort the
\* run: the callback does not return and the key's flags are not repaired.
C9_ContractViolationsAbort ==
    [][LET k == last'.key IN
       /\ (/\ Called("on_erase")
           /\ (k \notin DOMAIN cached \/ "INSERTED" \notin cached[k])) =>
             aborted' /\ cached' = cached /\ copyfwd_hist' = copyfwd_hist
       /\ (/\ Called("on_miss")
           /\ k \in DOMAIN cached
           /\ "SKIPPED_CF" \in cached[k]
           /\ "INSERTED" \notin cached[k]) =>
             aborted' /\ cached' = cached
       /\ (/\ Called("on_miss")
           /\ k \in DOMAIN cached
           /\ cached[k] \cap SkipFlags = {}
           /\ "INSERTED" \notin cached[k]) =>
             aborted' /\ cached' = cached]_vars

\* an on_miss found SKIPPED_CF on a key that was never inserted and aborted
C9_Witness ==
    /\ aborted
    /\ last.op = "on_miss"
    /\ "SKIPPED_CF" \in cached[last.key]
    /\ "INSERTED" \notin cached[last.key]

\* ------------------------------------------------- C10
\* C10: a key has an entry in cached only if on_miss has been called for it
\* (no other callback creates an entry), so the first on_miss of any key is
\* classified compulsory.
C10_EntryOnlyAfterMiss ==
    /\ [](DOMAIN cached \subseteq missed)
    /\ [][(Called("on_miss") /\ last'.key \notin missed) =>
            Incremented("compulsory_misses", last'.size)]_vars

\* ------------------------------------------------- C11
\* C11: once a key's INSERTED flag is set it stays set, and once a key has
\* an entry in cached no event removes the entry; on_erase clears only READ
\* and CF of its key and leaves INSERTED, SKIPPED_INSERT and SKIPPED_CF (and
\* every other key) unchanged.
C11_InsertedAndEntriesPersist ==
    [][/\ \A k \in DOMAIN cached :
            /\ k \in DOMAIN cached'
            /\ "INSERTED" \in cached[k] => "INSERTED" \in cached'[k]
       /\ Returned("on_erase") =>
            /\ DOMAIN cached' = DOMAIN cached
            /\ \A k \in DOMAIN cached :
                  cached'[k] = IF k = last'.key
                               THEN cached[k] \ {"READ", "CF"}
                               ELSE cached[k]]_vars

\* an erase of a key that had been copied forward and had a declined
\* insert: CF is gone, INSERTED and SKIPPED_INSERT are still there
C11_Witness ==
    /\ ~aborted
    /\ last.op = "on_erase"
    /\ Objs("copy_forwards") >= 1
    /\ Objs("skipped_inserts") >= 1
    /\ cached[last.key] = {"INSERTED", "SKIPPED_INSERT"}

\* ------------------------------------------------- C19
\* C19: right after an on_insert_attempt with was_inserted = true returns,
\* the key's SKIPPED_INSERT flag is clear (so that a key declined, then
\* accepted, then erased has its next miss classified as a capacity miss).
C19_InsertClearsSkippedInsert ==
    [][(Returned("on_insert_attempt") /\ last'.a) =>
          "SKIPPED_INSERT" \notin FlagsAt(cached', last'.key)]_vars

\* ------------------------------------------------- C20
\* C20: right after an on_miss(key) that returns, SKIPPED_INSERT and
\* SKIPPED_CF of the key are clear; an on_miss on a key whose previous
\* on_miss was followed by no on_insert_attempt and no on_copyfwd_attempt
\* for that key increments neither wa_skip_misses nor compulsory_misses (it
\* is a capacity miss or it aborts); and an on_miss on a key that on_miss
\* was called for before does not increment compulsory_misses.
C20_MissClearsSkipFlags ==
    [][Called("on_miss") =>
         /\ Returned("on_miss") =>
               /\ last'.key \in DOMAIN cached'
               /\ cached'[last'.key] \cap SkipFlags = {}
         /\ last'.key \in quietSinceMiss =>
               /\ Same("wa_skip_misses")
               /\ Same("compulsory_misses")
               /\ \/ aborted'
                  \/ Incremented("capacity_misses", last'.size)
         /\ last'.key \in missed => Same("compulsory_misses")]_vars

\* a wa_skip miss with both skip flags set has been followed by a second
\* miss on the same key, counted as a capacity miss
C20_Witness ==
    /\ ~aborted
    /\ last.op = "on_miss"
    /\ last.key \in quietSinceMiss
    /\ Objs("wa_skip_misses") >= 1
    /\ Objs("capacity_misses") >= 1
    /\ Objs("skipped_copyfwds") >= 1
\* ------------------------------------------------- C12
\* C12: in every reachable state flash_bytes_written is the sum of the
\* on_write sizes plus the sum of the on_container_flush unused capacities,
\* the byte count of objects_written is the sum of the on_write sizes, and
\* containers_written is the number of on_container_flush calls; every
\* callback other than on_write and on_container_flush (on_insert_attempt
\* among them) leaves the three unchanged.
C12_FlashBytesAccounting ==
    /\ [](/\ flash_bytes_written = tally.writes + tally.unused
          /\ Bytes("objects_written") = tally.writes
          /\ containers_written = tally.flushes)
    /\ [][(/\ steps' = steps + 1
           /\ last'.op \notin {"on_write", "on_container_flush"}) =>
             /\ flash_bytes_written' = flash_bytes_written
             /\ Same("objects_written")
             /\ containers_written' = containers_written]_vars

\* two writes and then a flush with unused capacity
C12_Witness ==
    /\ last.op = "on_container_flush"
    /\ Objs("objects_written") = 2
    /\ tally.unused >= 1
    /\ flash_bytes_written > Bytes("objects_written")
\* ------------------------------------------------- C13
\* the segment series FlashStats declares and CacheStats declares
FlashSeries ==
    {"segment_util", "segment_bytes_missed", "segment_bytes_read",
     "segment_objects_missed", "segment_objects_read", "segment_fbw",
     "segment_inserts"}
CacheSeries == {"segment_bhr", "segment_ohr", "segment_inserts"}

\* C13: in every reachable state every declared segment series of
\* FlashStats, and every one of CacheStats, has as many entries as
\* collect_periodic_stats calls were made on the object.
C13_SeriesLengthsEqualCollects ==
    /\ \A name \in FlashSeries : Len(periodic[name]) = collected.flash
    /\ \A name \in CacheSeries : Len(cache[name]) = collected.cache

\* ------------------------------------------------- C14
\* the sum of the entries of a series
SeriesSum(series) == SumOver(series, DOMAIN series)

\* C14: in every reachable state the entries of segment_fbw add up to the
\* value flash_bytes_written had at the most recent collect_periodic_stats
\* call (0 before the first), so that flash_bytes_written minus the sum is
\* what on_write and on_container_flush have added since that call; and
\* the entries of segment_inserts add up to the byte count of inserts as
\* of that call.
C14_SegmentSumsMatchTotals ==
    /\ SeriesSum(periodic.segment_fbw) = collected.flash_bytes_written
    /\ flash_bytes_written - SeriesSum(periodic.segment_fbw)
         = (tally.writes + tally.unused)
           - (collected.tally.writes + collected.tally.unused)
    /\ SeriesSum(periodic.segment_inserts) = collected.inserts

\* two collections, the first closing a segment with bytes written
C14_Witness ==
    /\ collected.flash = 2
    /\ periodic.segment_fbw[1] >= 1
    /\ last.op = "collect_periodic_stats"

\* ------------------------------------------------- C15
\* the entry a collection has just appended to a series
Appended(series) == series[Len(series)]

\* C15: a collect_periodic_stats call that directly follows another one on
\* the same object appends 0 to every delta series (FlashStats: bytes and
\* objects read, bytes and objects hit, bytes inserted, flash bytes written;
\* CacheStats: bytes inserted) and changes no counter, nor
\* flash_bytes_written, containers_written or containers_erased.
C15_SecondCollectAppendsZeros ==
    [][/\ (/\ Called("collect_periodic_stats")
           /\ last.op = "collect_periodic_stats") =>
             /\ \A name \in {"segment_bytes_read", "segment_objects_read",
                              "segment_bytes_hit", "segment_objects_hit",
                              "segment_inserts", "segment_fbw"} :
                   /\ Len(periodic'[name]) = Len(periodic[name]) + 1
                   /\ Appended(periodic'[name]) = 0
             /\ UNCHANGED <<counters, flash_bytes_written,
                            containers_written, containers_erased>>
       /\ (/\ Called("CacheStats::collect_periodic_stats")
           /\ last.op = "CacheStats::collect_periodic_stats") =>
             /\ Len(cache'.segment_inserts) = Len(cache.segment_inserts) + 1
             /\ Appended(cache'.segment_inserts) = 0
             /\ cache'.counters = cache.counters]_vars

\* ------------------------------------------------- C16
\* C16: Counter::increment(size) on the fields as declared makes neither
\* field smaller, and leaves the object count greater than it was.
C16_IncrementNeverDecreases ==
    [][Called("Counter::increment") =>
         /\ ~Less(ctr'.byte_counter, ctr.byte_counter)
         /\ Less(ctr.object_counter, ctr'.object_counter)]_vars

\* ------------------------------------------------- C17
\* the ratio reported for the denominator den is a number, and 0 when den
\* is 0
DefinedRatio(ratio, den) ==
    /\ ratio.kind = "num"
    /\ den = 0 => ratio = Zero

\* C17: the ratios print_periodic_stats reports (FlashStats: byte hit
\* ratio, object hit ratio, write amplification; CacheStats: byte and object
\* hit ratio) and the hit ratios CacheStats::collect_periodic_stats appends
\* are numbers, and 0 whenever their denominator is 0.
C17_RatiosDefined ==
    [][/\ Called("print_periodic_stats") =>
             /\ DefinedRatio(out'.overall_bhr, Bytes("total_reads"))
             /\ DefinedRatio(out'.overall_ohr, Objs("total_reads"))
             /\ DefinedRatio(out'.overall_wa, Bytes("inserts"))
       /\ Called("CacheStats::print_periodic_stats") =>
             /\ DefinedRatio(out'.overall_bhr,
                     CounterAt(cache.counters, "total_reads").byte_counter)
             /\ DefinedRatio(out'.overall_ohr,
                     CounterAt(cache.counters, "total_reads").object_counter)
       /\ Called("CacheStats::collect_periodic_stats") =>
             /\ DefinedRatio(Appended(cache'.segment_bhr),
                     CounterAt(cache.counters, "total_reads").byte_counter
                       - cache.last_reads.byte_counter)
             /\ DefinedRatio(Appended(cache'.segment_ohr),
                     CounterAt(cache.counters, "total_reads").object_counter
                       - cache.last_reads.object_counter)]_vars

\* ------------------------------------------------- C18
\* a series of length n rendered by reading the indices 0..n-1 once each,
\* as n elements with n-1 separators (none when n <= 1)
RenderedInRange(r) ==
    /\ ~r.oob
    /\ r.reads = [j \in 1..r.n |-> j - 1]
    /\ r.elements = r.n
    /\ r.separators = IF r.n <= 1 THEN 0 ELSE r.n - 1

\* C18: dump_counters_as_json renders each of its series, an empty one
\* included, without reading outside it: copyfwd_hist and the seven segment
\* series for FlashStats, the two ratio series for CacheStats.
C18_DumpReadsInRange ==
    [][/\ Called("dump_counters_as_json") =>
             /\ Len(out'.renders) = 1 + Cardinality(FlashSeries)
             /\ \A i \in 1..Len(out'.renders) :
                   RenderedInRange(out'.renders[i])
       /\ Called("CacheStats::dump_counters_as_json") =>
             /\ Len(out'.renders) = 2
             /\ \A i \in 1..Len(out'.renders) :
                   RenderedInRange(out'.renders[i])]_vars
====
